---- MODULE Spec2Model ----
(***************************************************************************)
(* A model of py_stream_zip: the EOCD scan, the central-directory scan in  *)
(* eager and lazy mode, local-header resolution and payload retrieval.     *)
(*                                                                         *)
(* Byte buffers are sequences of bytes (0..255).  A Python int read from a *)
(* buffer is kept as its little-endian byte string without trailing zero   *)
(* bytes (a "Num"): 0xFFFFFFFF and the 64-bit ZIP64 values do not fit the  *)
(* checker's machine integers.  16-bit values are ordinary naturals.       *)
(* A decoded string is a sequence of code points.                          *)
(***************************************************************************)
EXTENDS Integers, Sequences, FiniteSets, TLC

(***************************************************************************)
(* constants.py                                                            *)
(***************************************************************************)
LOCHDR == 30
LOCSIG == 67324752
LOCVER == 4
LOCFLG == 6
LOCHOW == 8
LOCTIM == 10
LOCCRC == 14
LOCSIZ == 18
LOCLEN == 22
LOCNAM == 26
LOCEXT == 28
CENHDR == 46
CENSIG == 33639248
CENVEM == 4
CENVER == 6
CENFLG == 8
CENHOW == 10
CENTIM == 12
CENCRC == 16
CENSIZ == 20
CENLEN == 24
CENNAM == 28
CENEXT == 30
CENCOM == 32
CENDSK == 34
CENATT == 36
CENATX == 38
CENOFF == 42
ENDHDR == 22
ENDSIG == 101010256
ENDSUB == 8
ENDTOT == 10
ENDSIZ == 12
ENDOFF == 16
ENDCOM == 20
MAXFILECOMMENT == 65535
STORED == 0
DEFLATED == 8
EF_ZIP64_OR_16 == 65535
ID_ZIP64 == 1
ID_UNICODE_PATH == 28789
\* 0xFFFFFFFF as a Num
EF_ZIP64_OR_32 == <<255, 255, 255, 255>>

(***************************************************************************)
(* Python ints (Num) and the struct readers of utils.py                    *)
(***************************************************************************)
Min(a, b) == IF a < b THEN a ELSE b

RECURSIVE Norm(_)
Norm(bs) ==
  IF bs = <<>> THEN <<>>
  ELSE IF bs[Len(bs)] = 0 THEN Norm(SubSeq(bs, 1, Len(bs) - 1)) ELSE bs

RECURSIVE FromNat(_)
FromNat(k) == IF k = 0 THEN <<>> ELSE <<k % 256>> \o FromNat(k \div 256)

\* a Num below 2^24 is usable as a machine integer
IsSmall(n) == Len(n) <= 3

ToNat(n) ==
  (IF Len(n) >= 1 THEN n[1] ELSE 0)
  + (IF Len(n) >= 2 THEN 256 * n[2] ELSE 0)
  + (IF Len(n) >= 3 THEN 65536 * n[3] ELSE 0)

\* data[a:b] of Python, a and b naturals (0-based, end exclusive, clipped)
Slice(data, a, b) == SubSeq(data, a + 1, Min(b, Len(data)))

\* struct.unpack_from("<H", buffer, offset)[0]; needs offset + 2 <= len
unpack_H(buffer, offset) == buffer[offset + 1] + 256 * buffer[offset + 2]

\* struct.unpack_from("<I", buffer, offset)[0]; needs offset + 4 <= len
read_uint32_le(buffer, offset) == Norm(SubSeq(buffer, offset + 1, offset + 4))

\* struct.unpack_from("<Q", buffer, offset)[0]; needs offset + 8 <= len
read_uint64_le(buffer, offset) == Norm(SubSeq(buffer, offset + 1, offset + 8))

\* bytes.decode(encoding, errors="replace") for utf-8 on the bytes the model
\* uses: ASCII bytes decode to themselves, a byte that can start no UTF-8
\* sequence (0xFF) decodes to U+FFFD
REPLACEMENT == 65533
decode(bs) == [i \in 1..Len(bs) |-> IF bs[i] < 128 THEN bs[i] ELSE REPLACEMENT]

(***************************************************************************)
(* utils.parse_zip_time: DOS time and date to a datetime, or the 1970      *)
(* epoch when the fields form no valid date                                *)
(***************************************************************************)
DaysIn(year, month) ==
  IF month \in {4, 6, 9, 11} THEN 30
  ELSE IF month = 2
       THEN (IF year % 4 = 0 /\ (year % 100 # 0 \/ year % 400 = 0) THEN 29 ELSE 28)
       ELSE 31

parse_zip_time(timebytes, datebytes) ==
  LET hour == timebytes \div 2048
      minute == (timebytes \div 32) % 64
      second == (timebytes % 32) * 2
      year == (datebytes \div 512) + 1980
      month == (datebytes \div 32) % 16
      day == datebytes % 32
  IN IF /\ month \in 1..12
        /\ day \in 1..DaysIn(year, month)
        /\ hour <= 23 /\ minute <= 59 /\ second <= 59
     THEN <<year, month, day, hour, minute, second>>
     ELSE <<1970, 1, 1, 0, 0, 0>>

(***************************************************************************)
(* zlib.crc32: the reflected CRC-32 (polynomial 0xEDB88320), on 32-bit     *)
(* vectors, least significant bit first                                    *)
(***************************************************************************)
Bit(k, i) == (k \div (2 ^ i)) % 2

\* 0xEDB88320, bit i at index i + 1
CrcPoly == [i \in 1..32 |->
  IF (i - 1) \in {5, 8, 9, 15, 19, 20, 21, 23, 24, 26, 27, 29, 30, 31} THEN 1 ELSE 0]

Xor(a, b) == (a + b) % 2

CrcShift(c) ==
  LET s == [i \in 1..32 |-> IF i < 32 THEN c[i + 1] ELSE 0]
  IN IF c[1] = 1 THEN [i \in 1..32 |-> Xor(s[i], CrcPoly[i])] ELSE s

RECURSIVE CrcShifts(_, _)
CrcShifts(c, n) == IF n = 0 THEN c ELSE CrcShifts(CrcShift(c), n - 1)

CrcByte(c, b) ==
  CrcShifts([i \in 1..32 |-> IF i <= 8 THEN Xor(c[i], Bit(b, i - 1)) ELSE c[i]], 8)

RECURSIVE CrcBytes(_, _)
CrcBytes(c, data) ==
  IF data = <<>> THEN c ELSE CrcBytes(CrcByte(c, Head(data)), Tail(data))

BitsToByte(c, k) ==
  c[8 * k + 1] + 2 * c[8 * k + 2] + 4 * c[8 * k + 3] + 8 * c[8 * k + 4]
  + 16 * c[8 * k + 5] + 32 * c[8 * k + 6] + 64 * c[8 * k + 7] + 128 * c[8 * k + 8]

crc32(data) ==
  LET c == CrcBytes([i \in 1..32 |-> 1], data)
      f == [i \in 1..32 |-> 1 - c[i]]
  IN Norm(<<BitsToByte(f, 0), BitsToByte(f, 1), BitsToByte(f, 2), BitsToByte(f, 3)>>)

(***************************************************************************)
(* zlib.decompress(data, -MAX_WBITS) on raw DEFLATE streams made of stored *)
(* blocks (BTYPE 00): header byte, LEN, NLEN = ~LEN, LEN bytes.  Bytes     *)
(* after the final block are ignored.  The archives of the model hold no   *)
(* Huffman blocks; the reserved block type 11 is an error as in zlib.      *)
(***************************************************************************)
RECURSIVE Inflate(_)
Inflate(data) ==
  IF data = <<>> THEN [ok |-> FALSE, out |-> <<>>]
  ELSE IF (data[1] \div 2) % 4 # 0 THEN [ok |-> FALSE, out |-> <<>>]
  ELSE IF Len(data) < 5 THEN [ok |-> FALSE, out |-> <<>>]
  ELSE LET len == unpack_H(data, 1)
           nlen == unpack_H(data, 3)
       IN IF len + nlen # 65535 THEN [ok |-> FALSE, out |-> <<>>]
          ELSE IF Len(data) < 5 + len THEN [ok |-> FALSE, out |-> <<>>]
          ELSE IF data[1] % 2 = 1
               THEN [ok |-> TRUE, out |-> SubSeq(data, 6, 5 + len)]
               ELSE LET rest == Inflate(SubSeq(data, 6 + len, Len(data)))
                    IN [ok |-> rest.ok,
                        out |-> IF rest.ok THEN SubSeq(data, 6, 5 + len) \o rest.out
                                ELSE <<>>]

(***************************************************************************)
(* Optional values: None is the empty sequence, a present value x is <<x>> *)
(***************************************************************************)
None == <<>>
Some(x) == <<x>>

(***************************************************************************)
(* central_directory.py: CentralDirectoryHeader.read.  ok is FALSE where   *)
(* the code raises ValueError("Invalid central directory header").         *)
(***************************************************************************)
CentralDirectoryHeader_read(data) ==
  IF Len(data) # ENDHDR \/ read_uint32_le(data, 0) # FromNat(ENDSIG)
  THEN [ok |-> FALSE]
  ELSE [ok |-> TRUE,
        volume_entries |-> unpack_H(data, ENDSUB),
        total_entries |-> unpack_H(data, ENDTOT),
        size |-> read_uint32_le(data, ENDSIZ),
        offset |-> read_uint32_le(data, ENDOFF),
        comment_length |-> unpack_H(data, ENDCOM)]

(***************************************************************************)
(* zip_entry.py: ZipEntry                                                  *)
(***************************************************************************)
\* ZipEntry.read_header can decode: the length and signature test
read_header_ok(data, offset) ==
  /\ Len(data) >= offset + CENHDR
  /\ read_uint32_le(data, offset) = FromNat(CENSIG)

\* ZipEntry() followed by read_header(data, offset), for read_header_ok.
\* has_parsed_lazy is hasattr(entry, "_parsed_lazy"); the three lazy
\* attributes are meaningful only with it.
read_header(data, offset) ==
  [ver_made |-> unpack_H(data, offset + CENVEM),
   version |-> unpack_H(data, offset + CENVER),
   flags |-> unpack_H(data, offset + CENFLG),
   method |-> unpack_H(data, offset + CENHOW),
   time |-> parse_zip_time(unpack_H(data, offset + CENTIM),
                           unpack_H(data, offset + CENTIM + 2)),
   crc |-> read_uint32_le(data, offset + CENCRC),
   compressed_size |-> read_uint32_le(data, offset + CENSIZ),
   size |-> read_uint32_le(data, offset + CENLEN),
   fname_len |-> unpack_H(data, offset + CENNAM),
   extra_len |-> unpack_H(data, offset + CENEXT),
   com_len |-> unpack_H(data, offset + CENCOM),
   disk_start |-> FromNat(unpack_H(data, offset + CENDSK)),
   inattr |-> unpack_H(data, offset + CENATT),
   attr |-> read_uint32_le(data, offset + CENATX),
   offset |-> read_uint32_le(data, offset + CENOFF),
   name |-> <<>>,
   is_directory |-> FALSE,
   comment |-> None,
   has_parsed_lazy |-> FALSE,
   parsed_lazy |-> FALSE,
   variable_offset |-> 0,
   variable_size |-> 0]

\* parse_zip64_extra with the cursor advanced past every field, present or not
parse_zip64_extra_fixed_layout(e, data) ==
  [e EXCEPT
     !.size = IF Len(data) >= 8 /\ e.size = EF_ZIP64_OR_32
              THEN read_uint64_le(data, 0) ELSE @,
     !.compressed_size = IF Len(data) >= 16 /\ e.compressed_size = EF_ZIP64_OR_32
                         THEN read_uint64_le(data, 8) ELSE @,
     !.offset = IF Len(data) >= 24 /\ e.offset = EF_ZIP64_OR_32
                THEN read_uint64_le(data, 16) ELSE @,
     !.disk_start = IF Len(data) >= 28 /\ e.disk_start = FromNat(EF_ZIP64_OR_16)
                    THEN read_uint32_le(data, 24) ELSE @]

\* ZipEntry.parse_zip64_extra
parse_zip64_extra(e, data) ==
  LET g1 == Len(data) >= 8 /\ e.size = EF_ZIP64_OR_32
      o1 == IF g1 THEN 8 ELSE 0
      g2 == Len(data) >= o1 + 8 /\ e.compressed_size = EF_ZIP64_OR_32
      o2 == IF g2 THEN o1 + 8 ELSE o1
      g3 == Len(data) >= o2 + 8 /\ e.offset = EF_ZIP64_OR_32
      o3 == IF g3 THEN o2 + 8 ELSE o2
      g4 == Len(data) >= o3 + 4 /\ e.disk_start = FromNat(EF_ZIP64_OR_16)
  IN [e EXCEPT
        !.size = IF g1 THEN read_uint64_le(data, 0) ELSE @,
        !.compressed_size = IF g2 THEN read_uint64_le(data, o1) ELSE @,
        !.offset = IF g3 THEN read_uint64_le(data, o2) ELSE @,
        !.disk_start = IF g4 THEN read_uint32_le(data, o3) ELSE @]

\* ZipEntry.parse_unicode_filename
parse_unicode_filename(e, data) ==
  IF Len(data) < 5 THEN e
  ELSE [e EXCEPT !.name = decode(Slice(data, 5, Len(data)))]

\* ZipEntry.read_extra: the loop from cursor `offset` on
RECURSIVE read_extra_from(_, _, _)
read_extra_from(e, data, offset) ==
  IF ~(offset < Len(data)) THEN e
  ELSE IF offset + 4 > Len(data) THEN e
  ELSE LET signature == unpack_H(data, offset)
           size == unpack_H(data, offset + 2)
           block == Slice(data, offset + 4, offset + 4 + size)
           e1 == IF signature = ID_ZIP64 THEN parse_zip64_extra(e, block)
                 ELSE IF signature = ID_UNICODE_PATH
                      THEN parse_unicode_filename(e, block)
                      ELSE e
       IN read_extra_from(e1, data, offset + 4 + size)

read_extra(e, data) == read_extra_from(e, data, 0)

endswith_sep(name) ==
  Len(name) > 0 /\ (name[Len(name)] = 47 \/ name[Len(name)] = 92)

\* ZipEntry.read: the variable-length fields at `offset` of data
read(e, data, offset) ==
  LET e1 == [e EXCEPT
               !.name = decode(Slice(data, offset, offset + e.fname_len)),
               !.is_directory =
                  IF endswith_sep(decode(Slice(data, offset, offset + e.fname_len)))
                  THEN TRUE ELSE @]
      current == offset + e.fname_len
      e2 == IF e.extra_len # 0
            THEN read_extra(e1, Slice(data, current, current + e.extra_len))
            ELSE e1
      current2 == IF e.extra_len # 0 THEN current + e.extra_len ELSE current
  IN [e2 EXCEPT
        !.comment = IF e.com_len # 0
                    THEN Some(decode(Slice(data, current2, current2 + e.com_len)))
                    ELSE None]

\* read_data_header taking CRC and sizes from the local header whatever they are
read_data_header_literal(e, data) ==
  LET n == Len(data)
  IN [ok |-> n >= LOCEXT + 2,
      entry |->
        [e EXCEPT
           !.version = IF n >= LOCVER + 2 THEN unpack_H(data, LOCVER) ELSE @,
           !.flags = IF n >= LOCFLG + 2 THEN unpack_H(data, LOCFLG) ELSE @,
           !.method = IF n >= LOCHOW + 2 THEN unpack_H(data, LOCHOW) ELSE @,
           !.time = IF n >= LOCTIM + 4
                    THEN parse_zip_time(unpack_H(data, LOCTIM),
                                        unpack_H(data, LOCTIM + 2))
                    ELSE @,
           !.crc = IF n >= LOCCRC + 4 THEN read_uint32_le(data, LOCCRC) ELSE @,
           !.compressed_size =
              IF n >= LOCSIZ + 4 THEN read_uint32_le(data, LOCSIZ) ELSE @,
           !.size = IF n >= LOCLEN + 4 THEN read_uint32_le(data, LOCLEN) ELSE @,
           !.fname_len = IF n >= LOCNAM + 2 THEN unpack_H(data, LOCNAM) ELSE @,
           !.extra_len = IF n >= LOCEXT + 2 THEN unpack_H(data, LOCEXT) ELSE @]]

\* ZipEntry.read_data_header on a local header whose signature matches.  The
\* fields are assigned in source order; struct.unpack_from raises
\* struct.error at the first field that does not fit in data, and the fields
\* assigned before it keep their new values.
read_data_header(e, data) ==
  LET n == Len(data)
      crc_l == read_uint32_le(data, LOCCRC)
      comp_size == read_uint32_le(data, LOCSIZ)
      size_l == read_uint32_le(data, LOCLEN)
  IN [ok |-> n >= LOCEXT + 2,
      entry |->
        [e EXCEPT
           !.version = IF n >= LOCVER + 2 THEN unpack_H(data, LOCVER) ELSE @,
           !.flags = IF n >= LOCFLG + 2 THEN unpack_H(data, LOCFLG) ELSE @,
           !.method = IF n >= LOCHOW + 2 THEN unpack_H(data, LOCHOW) ELSE @,
           !.time = IF n >= LOCTIM + 4
                    THEN parse_zip_time(unpack_H(data, LOCTIM),
                                        unpack_H(data, LOCTIM + 2))
                    ELSE @,
           !.crc = IF n >= LOCCRC + 4 /\ crc_l # <<>> THEN crc_l ELSE @,
           !.compressed_size =
              IF n >= LOCSIZ + 4 /\ comp_size # <<>> /\ comp_size # EF_ZIP64_OR_32
              THEN comp_size ELSE @,
           !.size =
              IF n >= LOCLEN + 4 /\ size_l # <<>> /\ size_l # EF_ZIP64_OR_32
              THEN size_l ELSE @,
           !.fname_len = IF n >= LOCNAM + 2 THEN unpack_H(data, LOCNAM) ELSE @,
           !.extra_len = IF n >= LOCEXT + 2 THEN unpack_H(data, LOCEXT) ELSE @]]

\* \w of the regular expression, on the code points the model uses (ASCII
\* and U+FFFD, which is no word character)
IsWord(c) == c \in (48..57) \cup (65..90) \cup (97..122) \cup {95}

\* validate_name with the ".." alternative not anchored at a segment start
validate_name_raises_unanchored(name) ==
  LET n == Len(name)
  IN \/ \E i \in 1..n : name[i] = 92
     \/ \E k \in 1..n :
          /\ k + 1 <= n
          /\ name[k + 1] = 58
          /\ \A j \in 1..k : IsWord(name[j])
     \/ n >= 1 /\ name[1] = 47
     \/ \E i \in 1..n :
          /\ i + 1 <= n
          /\ name[i] = 46 /\ name[i + 1] = 46
          /\ \/ i + 1 = n
             \/ name[i + 2] = 47
             \/ i + 2 = n /\ name[n] = 10

\* ZipEntry.validate_name: TRUE when the code raises ValueError, that is when
\* re.search finds  \\ | ^\w+: | ^\/ | (^|\/)\.\.(\/|$)  in the name
validate_name_raises(name) ==
  LET n == Len(name)
  IN \/ \E i \in 1..n : name[i] = 92
     \/ \E k \in 1..n :
          /\ k + 1 <= n
          /\ name[k + 1] = 58
          /\ \A j \in 1..k : IsWord(name[j])
     \/ n >= 1 /\ name[1] = 47
     \/ \E i \in 1..n :
          /\ i + 1 <= n
          /\ i = 1 \/ name[i - 1] = 47
          /\ name[i] = 46 /\ name[i + 1] = 46
          /\ \/ i + 1 = n
             \/ name[i + 2] = 47
             \/ i + 2 = n /\ name[n] = 10

(***************************************************************************)
(* The input archives.  An archive is described by its members and its     *)
(* end record and serialised to bytes in the ZIP layout; the catalogue     *)
(* holds well-formed archives and archives damaged in one named way.       *)
(* Nothing below models the program: it is the input domain.               *)
(***************************************************************************)
LE16(k) == <<k % 256, (k \div 256) % 256>>
LE32(k) == <<k % 256, (k \div 256) % 256, (k \div 65536) % 256, 0>>
LE64(k) == LE32(k) \o <<0, 0, 0, 0>>
Pad4(n) == n \o [i \in 1..(4 - Len(n)) |-> 0]
SigBytes(k) == Pad4(FromNat(k))
FF2 == <<255, 255>>
FF4 == <<255, 255, 255, 255>>

\* 2024-01-15 12:30:10 in DOS form
DosTime == 12 * 2048 + 30 * 32 + 5
DosDate == (2024 - 1980) * 512 + 1 * 32 + 15

\* a member stored without compression, all fields consistent
Member(name, payload) ==
  [name |-> name, lname |-> name, cextra |-> <<>>, lextra |-> <<>>, com |-> <<>>,
   cmethod |-> STORED, lmethod |-> STORED, cflags |-> 0, lflags |-> 0,
   ctime |-> DosTime, cdate |-> DosDate, ltime |-> DosTime, ldate |-> DosDate,
   ccrc |-> Pad4(crc32(payload)), lcrc |-> Pad4(crc32(payload)),
   ccsize |-> LE32(Len(payload)), lcsize |-> LE32(Len(payload)),
   csize |-> LE32(Len(payload)), lsize |-> LE32(Len(payload)),
   cdisk |-> <<0, 0>>, coff |-> "auto", csig |-> SigBytes(CENSIG),
   lsig |-> SigBytes(LOCSIG), data |-> payload, valid |-> TRUE]

Hi == <<104, 105>>
\* "hi" as one final stored DEFLATE block
HiDeflated == <<1, 2, 0, 253, 255>> \o Hi
\* a Unicode Path sub-record (0x7075) carrying `name`, declaring `len` bytes
UnicodePath(name, len) == <<117, 112>> \o LE16(len) \o <<1, 0, 0, 0, 0>> \o name
Zip64Rec(body) == <<1, 0>> \o LE16(Len(body)) \o body

KFile == [Member(<<97>>, Hi) EXCEPT !.com = <<99, 255>>]
KDir == Member(<<100, 47>>, <<>>)
KDirBs == Member(<<101, 92>>, <<>>)
KDeflate ==
  [Member(<<122>>, Hi) EXCEPT
     !.cmethod = DEFLATED, !.lmethod = DEFLATED, !.data = HiDeflated,
     !.ccsize = LE32(7), !.lcsize = LE32(7), !.cdate = 0]
KUnicode == [Member(<<117>>, Hi) EXCEPT !.cextra = UnicodePath(<<118, 47>>, 7)]
KBadCrc == [Member(<<98>>, Hi) EXCEPT !.data = <<104, 106>>, !.valid = FALSE]
KBadCrc3 ==
  [Member(<<103>>, Hi) EXCEPT
     !.data = <<104, 106>>, !.cflags = 8, !.lflags = 8, !.valid = FALSE]
KMethod ==
  [Member(<<109>>, Hi) EXCEPT !.cmethod = 12, !.lmethod = 12, !.valid = FALSE]
KSize ==
  [Member(<<115>>, Hi) EXCEPT !.csize = LE32(3), !.lsize = LE32(3), !.valid = FALSE]
KZip64 ==
  [Member(<<113>>, Hi) EXCEPT
     !.csize = FF4, !.ccsize = FF4, !.lsize = FF4, !.lcsize = FF4,
     !.cextra = Zip64Rec(LE64(2) \o LE64(2)),
     !.lextra = Zip64Rec(LE64(2) \o LE64(2))]
KZip64Off ==
  [Member(<<111>>, Hi) EXCEPT
     !.cdisk = FF2, !.coff = "zip64", !.cextra = Zip64Rec(LE64(0) \o LE32(0))]
KPlaceholder ==
  [Member(<<112>>, Hi) EXCEPT
     !.ccsize = FF4, !.lcsize = FF4, !.valid = FALSE]
KOverrun ==
  [Member(<<119>>, Hi) EXCEPT
     !.cextra = UnicodePath(<<120, 47>>, 9), !.valid = FALSE]
\* sizes and CRC deferred to a data descriptor: zero in the local header
KLocal ==
  [Member(<<108>>, Hi) EXCEPT
     !.lflags = 8, !.cflags = 8, !.lcrc = LE32(0), !.lcsize = LE32(0),
     !.lsize = LE32(0), !.lextra = <<9, 0, 1, 0, 7>>, !.lmethod = STORED,
     !.ltime = 0]
KBadSig == [Member(<<120>>, Hi) EXCEPT !.lsig = <<80, 75, 3, 5>>, !.valid = FALSE]
\* local header offset at the end of the file, resp. at the archive comment
KOffEof == [Member(<<121>>, Hi) EXCEPT !.coff = "eof", !.valid = FALSE]
KOffCom == [Member(<<107>>, Hi) EXCEPT !.coff = "comment", !.valid = FALSE]

Kinds ==
  <<KFile, KDir, KDirBs, KDeflate, KUnicode, KBadCrc, KBadCrc3, KMethod, KSize,
    KZip64, KZip64Off, KPlaceholder, KOverrun, KLocal, KBadSig, KOffEof>>

LocalRecord(m) ==
  m.lsig \o LE16(20) \o LE16(m.lflags) \o LE16(m.lmethod) \o LE16(m.ltime)
  \o LE16(m.ldate) \o m.lcrc \o m.lcsize \o m.lsize \o LE16(Len(m.lname))
  \o LE16(Len(m.lextra)) \o m.lname \o m.lextra \o m.data

CentralRecord(m, off4) ==
  m.csig \o LE16(20) \o LE16(20) \o LE16(m.cflags) \o LE16(m.cmethod)
  \o LE16(m.ctime) \o LE16(m.cdate) \o m.ccrc \o m.ccsize \o m.csize
  \o LE16(Len(m.name)) \o LE16(Len(m.cextra)) \o LE16(Len(m.com)) \o m.cdisk
  \o LE16(0) \o LE32(0) \o off4 \o m.name \o m.cextra \o m.com

RECURSIVE Locals(_)
Locals(ms) == IF ms = <<>> THEN <<>> ELSE LocalRecord(Head(ms)) \o Locals(Tail(ms))

CentralLen(m) == CENHDR + Len(m.name) + Len(m.cextra) + Len(m.com)

RECURSIVE CentralsLen(_)
CentralsLen(ms) == IF ms = <<>> THEN 0 ELSE CentralLen(Head(ms)) + CentralsLen(Tail(ms))

\* the central records of ms; `at` is the offset of the first member's local
\* record, `eof` the file size and `com` the offset of the archive comment
RECURSIVE Centrals(_, _, _, _)
Centrals(ms, at, eof, com) ==
  IF ms = <<>> THEN <<>>
  ELSE LET m == Head(ms)
           off4 == CASE m.coff = "auto" -> LE32(at)
                     [] m.coff = "zip64" -> FF4
                     [] m.coff = "eof" -> LE32(eof)
                     [] m.coff = "comment" -> LE32(com)
       IN CentralRecord(m, off4)
          \o Centrals(Tail(ms), at + Len(LocalRecord(m)), eof, com)

\* an archive: members, archive comment, the fields of the end record, each
\* either <<>> (the consistent value) or the bytes to write instead, and the
\* bytes that follow the archive in the file
Plain(ms) ==
  [members |-> ms, comment |-> <<>>, sig |-> SigBytes(ENDSIG), sub |-> <<>>,
   tot |-> <<>>, size |-> <<>>, off |-> <<>>, trail |-> <<>>, valid |-> TRUE]

Or(field, auto) == IF field = <<>> THEN auto ELSE field

Build(a) ==
  LET loc == Locals(a.members)
      cdlen == CentralsLen(a.members)
      com == Len(loc) + cdlen + ENDHDR
      eof == com + Len(a.comment)
      n == Len(a.members)
  IN loc \o Centrals(a.members, 0, eof, com)
     \o a.sig \o <<0, 0, 0, 0>> \o Or(a.sub, LE16(n)) \o Or(a.tot, LE16(n))
     \o Or(a.size, LE32(cdlen)) \o Or(a.off, LE32(Len(loc)))
     \o LE16(Len(a.comment)) \o a.comment \o a.trail

\* members of an archive: up to MaxMembers, the last of any kind, the ones
\* before it plain files; and the same in reverse order
MaxMembers == 2
Companions == {KFile, KDeflate}
KindSet == {Kinds[i] : i \in 1..Len(Kinds)}
Reverse(ms) == [i \in 1..Len(ms) |-> ms[Len(ms) + 1 - i]]
MemberSeqs ==
  LET fwd == {<<>>} \cup UNION {
               {pre \o <<k>> : pre \in [1..(n - 1) -> Companions], k \in KindSet}
               : n \in 1..MaxMembers}
  IN fwd \cup {Reverse(ms) : ms \in fwd}

AllValid(ms) == \A i \in 1..Len(ms) : ms[i].valid

Two == <<KFile, KDir>>
\* a local header cut short by the end of the file, placed in the comment
ShortLocal == SigBytes(LOCSIG) \o LE16(20) \o LE16(8) \o LE16(DEFLATED)
              \o LE16(0) \o LE16(0) \o <<1, 2, 3, 4>> \o <<5, 0>>
\* a complete end record declaring an empty archive
EmptyEnd == SigBytes(ENDSIG) \o [i \in 1..18 |-> 0]

Damaged ==
  {[Plain(Two) EXCEPT !.valid = FALSE, !.sub = FF2],
   [Plain(Two) EXCEPT !.valid = FALSE, !.tot = FF2],
   [Plain(Two) EXCEPT !.valid = FALSE, !.size = FF4],
   [Plain(Two) EXCEPT !.valid = FALSE, !.off = FF4],
   [Plain(Two) EXCEPT !.valid = FALSE, !.sub = LE16(3)],
   [Plain(Two) EXCEPT !.valid = FALSE, !.size = LE32(CentralsLen(Two) - 1)],
   [Plain(Two) EXCEPT !.valid = FALSE, !.size = LE32(CentralsLen(Two) - 3)],
   [Plain(Two) EXCEPT !.valid = FALSE, !.size = LE32(50)],
   [Plain(Two) EXCEPT !.valid = FALSE, !.sig = <<80, 75, 5, 5>>],
   [Plain(Two) EXCEPT !.valid = FALSE, !.comment = EmptyEnd],
   [Plain(Two) EXCEPT !.valid = FALSE, !.comment = <<33>> \o SigBytes(ENDSIG) \o <<33>>],
   [Plain(Two) EXCEPT !.valid = FALSE, !.sig = <<80, 75, 5, 5>>, !.comment = EmptyEnd],
   [Plain(<<[KFile EXCEPT !.csig = <<80, 75, 1, 3>>]>>) EXCEPT !.valid = FALSE],
   [Plain(<<KFile, KOffCom>>) EXCEPT !.valid = FALSE, !.comment = ShortLocal],
   [Plain(Two) EXCEPT !.valid = FALSE, !.tot = LE16(3)],
   [Plain(Two) EXCEPT !.valid = FALSE, !.trail = [i \in 1..(MAXFILECOMMENT + 1) |-> 0]],
   [Plain(Two) EXCEPT !.valid = FALSE, !.sig = <<80, 75, 5, 5>>,
                      !.trail = [i \in 1..(MAXFILECOMMENT - 17) |-> 0] \o EmptyEnd],
   [Plain(Two) EXCEPT !.comment = <<99, 255, 33>>]}

Catalogue ==
  {[Plain(ms) EXCEPT !.valid = AllValid(ms)] : ms \in MemberSeqs} \cup Damaged

(***************************************************************************)
(* stream_zip.py: StreamZip                                                *)
(***************************************************************************)
VARIABLES
  archive,            \* the description `file` was serialised from (history)
  file,               \* the bytes of the backing file
  store_entries,
  lazy_entries,
  pc,                 \* "new", "cd_read" (between the two steps of __init__),
                      \* "ready" (constructed) or "failed" (__init__ raised)
  fp_open,            \* self._fp is an open file
  fp_pos,             \* its position
  central_dir_header, \* self._central_dir_header
  comment,            \* self.comment
  entries_count,      \* self.entries_count
  entries,            \* self.entries, name -> ZipEntry (empty when not stored)
  cd_data,            \* the directory block the lazy entries refer to
  decoded,            \* central-directory entries decoded by _read_entries
  ret,                \* outcome of the last call
  iolog,              \* seeks and reads of the last call, in order
  arg,                \* the argument of a function applied on its own
  res                 \* and its result

vars == <<archive, file, store_entries, lazy_entries, pc, fp_open, fp_pos,
          central_dir_header, comment, entries_count, entries, cd_data,
          decoded, ret, iolog, arg, res>>

NoRet == [op |-> "none", name |-> <<>>, status |-> "none", data_offset |-> 0,
          data |-> <<>>]

\* self._fp.read(n) at position pos of data; n and pos are Nums.  A count
\* beyond the model's integers reads to the end of the file.
ReadAt(data, pos, n) ==
  IF IsSmall(pos) /\ ToNat(pos) < Len(data)
  THEN SubSeq(data, ToNat(pos) + 1,
              IF IsSmall(n) THEN Min(ToNat(pos) + ToNat(n), Len(data)) ELSE Len(data))
  ELSE <<>>

\* StreamZip.__init__ up to the call of _read_central_directory
Init ==
  /\ archive \in Catalogue
  /\ file = Build(archive)
  /\ store_entries \in BOOLEAN
  /\ lazy_entries \in BOOLEAN
  /\ pc = "new"
  /\ fp_open = TRUE
  /\ fp_pos = <<>>
  /\ central_dir_header = None
  /\ comment = None
  /\ entries_count = 0
  /\ entries = <<>>
  /\ cd_data = <<>>
  /\ decoded = 0
  /\ ret = NoRet
  /\ iolog = <<>>
  /\ arg = None
  /\ res = None

\* bytes.find in place of rfind: the least index
find_first(data, sub) ==
  LET hits == {p \in 0..(Len(data) - Len(sub)) :
                 \A i \in 1..Len(sub) : data[p + i] = sub[i]}
  IN IF hits = {} THEN -1 ELSE CHOOSE p \in hits : \A q \in hits : p <= q

\* bytes.rfind: the greatest 0-based index where sub occurs in data, or -1
rfind(data, sub) ==
  LET hits == {p \in 0..(Len(data) - Len(sub)) :
                 \A i \in 1..Len(sub) : data[p + i] = sub[i]}
  IN IF hits = {} THEN -1 ELSE CHOOSE p \in hits : \A q \in hits : q <= p

\* the window of the file _read_central_directory scans
eocd_read_size(file_size) == Min(ENDHDR + MAXFILECOMMENT, file_size)

\* the marker test without the total-entries field
zip64_markers_no_total(cd_header) ==
  \/ cd_header.volume_entries = EF_ZIP64_OR_16
  \/ cd_header.size = EF_ZIP64_OR_32
  \/ cd_header.offset = EF_ZIP64_OR_32

\* the ZIP64 markers _read_central_directory refuses
zip64_markers(cd_header) ==
  \/ cd_header.volume_entries = EF_ZIP64_OR_16
  \/ cd_header.total_entries = EF_ZIP64_OR_16
  \/ cd_header.size = EF_ZIP64_OR_32
  \/ cd_header.offset = EF_ZIP64_OR_32

\* StreamZip._read_central_directory
ReadCentralDirectory ==
  /\ pc = "new"
  /\ LET file_size == Len(file)
         read_size == eocd_read_size(file_size)
         start == FromNat(file_size - read_size)
         data == ReadAt(file, start, FromNat(read_size))
         pos == rfind(data, SigBytes(ENDSIG))
         cd_header == CentralDirectoryHeader_read(Slice(data, pos, pos + ENDHDR))
         fail(status) ==
           /\ pc' = "failed"
           /\ ret' = [NoRet EXCEPT !.op = "open", !.status = status]
     IN /\ iolog' = <<<<"seek", start>>, <<"read", FromNat(read_size)>>>>
        /\ fp_pos' = FromNat(file_size)
        /\ IF pos < 0
           THEN /\ fail("EocdNotFound")
                /\ UNCHANGED <<central_dir_header, comment, entries_count>>
           ELSE IF ~cd_header.ok
           THEN /\ fail("InvalidCentralDirectoryHeader")
                /\ UNCHANGED <<central_dir_header, comment, entries_count>>
           ELSE /\ central_dir_header' = Some(cd_header)
                /\ comment' =
                     IF cd_header.comment_length # 0
                     THEN Some(decode(Slice(data, pos + ENDHDR,
                                 pos + ENDHDR + cd_header.comment_length)))
                     ELSE None
                /\ entries_count' = cd_header.volume_entries
                /\ IF zip64_markers(cd_header)
                   THEN fail("Zip64NotImplemented")
                   ELSE /\ pc' = "cd_read"
                        /\ ret' = NoRet
  /\ UNCHANGED <<archive, file, store_entries, lazy_entries, fp_open, entries,
                 cd_data, decoded, arg, res>>

\* self.entries[entry.name] = entry, when entries are stored
Store(tbl, store, e) ==
  IF store
  THEN [n \in DOMAIN tbl \cup {e.name} |-> IF n = e.name THEN e ELSE tbl[n]]
  ELSE tbl

\* StreamZip._read_entries, lazy branch: the loop with `left` iterations to
\* go, the cursor at pos, tbl the entries stored and done the count decoded
RECURSIVE read_entries_lazy(_, _, _, _, _, _)
read_entries_lazy(cd, pos, tbl, left, done, store) ==
  IF left = 0 THEN [status |-> "ok", entries |-> tbl, decoded |-> done, pos |-> pos]
  ELSE IF pos + CENHDR > Len(cd)
  THEN [status |-> "IncompleteEntry", entries |-> tbl, decoded |-> done, pos |-> pos]
  ELSE IF ~read_header_ok(cd, pos)
  THEN [status |-> "InvalidEntryHeader", entries |-> tbl, decoded |-> done, pos |-> pos]
  ELSE LET h == read_header(cd, pos)
           pos_header_end == pos + CENHDR
           e == [h EXCEPT
                   !.name = decode(Slice(cd, pos_header_end, pos_header_end + h.fname_len)),
                   !.has_parsed_lazy = TRUE,
                   !.parsed_lazy = FALSE,
                   !.variable_offset = pos_header_end,
                   !.variable_size = h.fname_len + h.extra_len + h.com_len]
       IN read_entries_lazy(cd, pos_header_end + e.variable_size,
                            Store(tbl, store, e), left - 1, done + 1, store)

\* the eager loop without the test that the trailer fits
RECURSIVE read_entries_eager_unchecked(_, _, _, _, _, _)
read_entries_eager_unchecked(cd, pos, tbl, left, done, store) ==
  IF left = 0 THEN [status |-> "ok", entries |-> tbl, decoded |-> done, pos |-> pos]
  ELSE IF pos + CENHDR > Len(cd)
  THEN [status |-> "IncompleteEntry", entries |-> tbl, decoded |-> done, pos |-> pos]
  ELSE IF ~read_header_ok(cd, pos)
  THEN [status |-> "InvalidEntryHeader", entries |-> tbl, decoded |-> done, pos |-> pos]
  ELSE LET h == read_header(cd, pos)
           pos1 == pos + CENHDR
           variable_size == h.fname_len + h.extra_len + h.com_len
       IN read_entries_eager_unchecked(cd, pos1 + variable_size,
                                       Store(tbl, store, read(h, cd, pos1)),
                                       left - 1, done + 1, store)

\* StreamZip._read_entries, eager branch
RECURSIVE read_entries_eager(_, _, _, _, _, _)
read_entries_eager(cd, pos, tbl, left, done, store) ==
  IF left = 0 THEN [status |-> "ok", entries |-> tbl, decoded |-> done, pos |-> pos]
  ELSE IF pos + CENHDR > Len(cd)
  THEN [status |-> "IncompleteEntry", entries |-> tbl, decoded |-> done, pos |-> pos]
  ELSE IF ~read_header_ok(cd, pos)
  THEN [status |-> "InvalidEntryHeader", entries |-> tbl, decoded |-> done, pos |-> pos]
  ELSE LET h == read_header(cd, pos)
           pos1 == pos + CENHDR
           variable_size == h.fname_len + h.extra_len + h.com_len
       IN IF pos1 + variable_size > Len(cd)
          THEN [status |-> "CorruptedEntry", entries |-> tbl, decoded |-> done,
                pos |-> pos1]
          ELSE read_entries_eager(cd, pos1 + variable_size,
                                  Store(tbl, store, read(h, cd, pos1)),
                                  left - 1, done + 1, store)

\* a loop that stops one entry early
entry_count_short(cd_header) ==
  IF cd_header.volume_entries > 0 THEN cd_header.volume_entries - 1 ELSE 0

\* entry_count of _read_entries: the iterations of its loop
entry_count(cd_header) == cd_header.volume_entries

\* the position of the file after reading `got` bytes at pos
Advance(pos, got) == IF IsSmall(pos) THEN FromNat(ToNat(pos) + got) ELSE pos

\* StreamZip._read_entries
ReadEntries ==
  /\ pc = "cd_read"
  /\ LET hdr == central_dir_header[1]
         cd == ReadAt(file, hdr.offset, hdr.size)
         r == IF lazy_entries
              THEN read_entries_lazy(cd, 0, <<>>, entry_count(hdr), 0, store_entries)
              ELSE read_entries_eager(cd, 0, <<>>, entry_count(hdr), 0, store_entries)
     IN /\ iolog' = <<<<"seek", hdr.offset>>, <<"read", hdr.size>>>>
        /\ fp_pos' = Advance(hdr.offset, Len(cd))
        /\ cd_data' = IF lazy_entries THEN cd ELSE <<>>
        /\ entries' = r.entries
        /\ decoded' = r.decoded
        /\ pc' = IF r.status = "ok" THEN "ready" ELSE "failed"
        /\ ret' = [NoRet EXCEPT !.op = "open", !.status = r.status]
  /\ UNCHANGED <<archive, file, store_entries, lazy_entries, fp_open,
                 central_dir_header, comment, entries_count, arg, res>>

\* file.seek(n) raises OverflowError for n >= 2^63
SeekOverflows(n) == Len(n) = 8 /\ n[8] >= 128

\* open_entry computing the data offset from the lengths the entry held
\* before the local header was read
open_entry_at_stale(e, data, open, pos) ==
  LET none(status) == [status |-> status, entry |-> e, data_offset |-> 0,
                       io |-> <<>>, pos |-> pos]
      local_header == ReadAt(data, e.offset, FromNat(LOCHDR))
      io2 == <<<<"seek", e.offset>>, <<"read", FromNat(LOCHDR)>>>>
      pos2 == Advance(e.offset, Len(local_header))
      r == read_data_header(e, local_header)
  IN IF e.has_parsed_lazy /\ ~e.parsed_lazy THEN none("AttributeError")
     ELSE IF e.is_directory THEN none("IsDirectory")
     ELSE IF ~open THEN none("AttributeError")
     ELSE IF SeekOverflows(e.offset)
     THEN [none("OverflowError") EXCEPT !.io = <<<<"seek", e.offset>>>>]
     ELSE IF Len(local_header) < 4
     THEN [none("struct.error") EXCEPT !.io = io2, !.pos = pos2]
     ELSE IF read_uint32_le(local_header, 0) # FromNat(LOCSIG)
     THEN [none("LocalHeaderMismatch") EXCEPT !.io = io2, !.pos = pos2]
     ELSE IF ~r.ok
     THEN [status |-> "struct.error", entry |-> r.entry, data_offset |-> 0,
           io |-> io2, pos |-> pos2]
     ELSE [status |-> "ok", entry |-> r.entry,
           data_offset |-> ToNat(e.offset) + LOCHDR + e.fname_len + e.extra_len,
           io |-> io2, pos |-> pos2]

\* StreamZip.open_entry on the entry object e: the outcome, the entry as the
\* call leaves it, and the seeks and reads it performed.
\* ZipEntry defines no ensure_parsed, so the call at stream_zip.py:198 raises
\* AttributeError for an entry whose _parsed_lazy is False.
open_entry_at(e, data, open, pos) ==
  LET none(status) == [status |-> status, entry |-> e, data_offset |-> 0,
                       io |-> <<>>, pos |-> pos]
      local_header == ReadAt(data, e.offset, FromNat(LOCHDR))
      io2 == <<<<"seek", e.offset>>, <<"read", FromNat(LOCHDR)>>>>
      pos2 == Advance(e.offset, Len(local_header))
      r == read_data_header(e, local_header)
  IN IF e.has_parsed_lazy /\ ~e.parsed_lazy THEN none("AttributeError")
     ELSE IF e.is_directory THEN none("IsDirectory")
     ELSE IF ~open THEN none("AttributeError")
     ELSE IF SeekOverflows(e.offset)
     THEN [none("OverflowError") EXCEPT !.io = <<<<"seek", e.offset>>>>]
     ELSE IF Len(local_header) < 4
     THEN [none("struct.error") EXCEPT !.io = io2, !.pos = pos2]
     ELSE IF read_uint32_le(local_header, 0) # FromNat(LOCSIG)
     THEN [none("LocalHeaderMismatch") EXCEPT !.io = io2, !.pos = pos2]
     ELSE IF ~r.ok
     THEN [status |-> "struct.error", entry |-> r.entry, data_offset |-> 0,
           io |-> io2, pos |-> pos2]
     ELSE [status |-> "ok", entry |-> r.entry,
           data_offset |-> ToNat(e.offset) + LOCHDR + r.entry.fname_len
                           + r.entry.extra_len,
           io |-> io2, pos |-> pos2]

\* open_entry on this StreamZip's file
open_entry(e) == open_entry_at(e, file, fp_open, fp_pos)

\* the name lookup of open_entry(str): StreamZip.entry and the not-found test
Lookup(name) ==
  IF ~store_entries THEN "EntriesStorageDisabled"
  ELSE IF name \notin DOMAIN entries THEN "EntryNotFound"
  ELSE "ok"

\* a name no archive of the catalogue holds
Absent == <<63>>
Names == DOMAIN entries \cup {Absent}

\* every entry sharing one object's fields
SetEntry_shared(tbl, name, e) == [n \in DOMAIN tbl |-> e]

\* the entry object stored under `name` becomes e: the calls mutate the one
\* object they were given
SetEntry(tbl, name, e) == [tbl EXCEPT ![name] = e]

\* StreamZip.open_entry
OpenEntry(name) ==
  /\ pc = "ready"
  /\ IF Lookup(name) # "ok"
     THEN /\ ret' = [NoRet EXCEPT !.op = "open_entry", !.name = name,
                                  !.status = Lookup(name)]
          /\ iolog' = <<>>
          /\ UNCHANGED <<entries, fp_pos>>
     ELSE LET r == open_entry(entries[name])
          IN /\ ret' = [op |-> "open_entry", name |-> name, status |-> r.status,
                        data_offset |-> r.data_offset, data |-> <<>>]
             /\ iolog' = r.io
             /\ fp_pos' = r.pos
             /\ entries' = SetEntry(entries, name, r.entry)
  /\ UNCHANGED <<archive, file, store_entries, lazy_entries, pc, fp_open,
                 central_dir_header, comment, entries_count, cd_data, decoded, arg, res>>

\* file.read(n) raises OverflowError when n does not fit a C ssize_t
ReadOverflows(n) == Len(n) = 8 /\ n[8] >= 128

\* entry_data_sync without the CRC comparison
entry_data_check_no_crc(e, data) ==
  LET inflated == Inflate(data)
      result == IF e.method = STORED THEN data ELSE inflated.out
  IN IF e.method # STORED /\ e.method # DEFLATED
     THEN [status |-> "UnsupportedMethod", data |-> <<>>]
     ELSE IF e.method = DEFLATED /\ ~inflated.ok
     THEN [status |-> "zlib.error", data |-> <<>>]
     ELSE IF FromNat(Len(result)) # e.size
     THEN [status |-> "SizeMismatch", data |-> <<>>]
     ELSE [status |-> "ok", data |-> result]

\* StreamZip.entry_data_sync after open_entry returned (e, data_offset), with
\* `data` the bytes read: decompression and the size and CRC checks
entry_data_check(e, data) ==
  LET inflated == Inflate(data)
      result == IF e.method = STORED THEN data ELSE inflated.out
  IN IF e.method # STORED /\ e.method # DEFLATED
     THEN [status |-> "UnsupportedMethod", data |-> <<>>]
     ELSE IF e.method = DEFLATED /\ ~inflated.ok
     THEN [status |-> "zlib.error", data |-> <<>>]
     ELSE IF FromNat(Len(result)) # e.size
     THEN [status |-> "SizeMismatch", data |-> <<>>]
     ELSE IF (e.flags \div 8) % 2 # 1 /\ crc32(result) # e.crc
     THEN [status |-> "CrcMismatch", data |-> <<>>]
     ELSE [status |-> "ok", data |-> result]

\* StreamZip.entry_data_sync.  A read of 2^24 bytes or more either runs to the
\* end of the file or, when the buffer cannot be allocated, raises MemoryError.
EntryDataSync(name) ==
  /\ pc = "ready"
  /\ IF Lookup(name) # "ok"
     THEN /\ ret' = [NoRet EXCEPT !.op = "entry_data_sync", !.name = name,
                                  !.status = Lookup(name)]
          /\ iolog' = <<>>
          /\ UNCHANGED <<entries, fp_pos>>
     ELSE LET r == open_entry(entries[name])
              e == r.entry
              at == FromNat(r.data_offset)
              data == ReadAt(file, at, e.compressed_size)
              io == r.io \o <<<<"seek", at>>, <<"read", e.compressed_size>>>>
              out(status, bytes) ==
                [op |-> "entry_data_sync", name |-> name, status |-> status,
                 data_offset |-> 0, data |-> bytes]
          IN /\ entries' = SetEntry(entries, name, e)
             /\ IF r.status # "ok"
                THEN /\ ret' = out(r.status, <<>>)
                     /\ iolog' = r.io
                     /\ fp_pos' = r.pos
                ELSE IF ReadOverflows(e.compressed_size)
                THEN /\ ret' = out("OverflowError", <<>>)
                     /\ iolog' = io
                     /\ fp_pos' = at
                ELSE \/ /\ ~IsSmall(e.compressed_size)
                        /\ ret' = out("MemoryError", <<>>)
                        /\ iolog' = io
                        /\ fp_pos' = at
                     \/ /\ ret' = out(entry_data_check(e, data).status,
                                      entry_data_check(e, data).data)
                        /\ iolog' = io
                        /\ fp_pos' = Advance(at, Len(data))
  /\ UNCHANGED <<archive, file, store_entries, lazy_entries, pc, fp_open,
                 central_dir_header, comment, entries_count, cd_data, decoded, arg, res>>

\* StreamZip.close
Close ==
  /\ pc = "ready"
  /\ fp_open
  /\ fp_open' = FALSE
  /\ ret' = [NoRet EXCEPT !.op = "close", !.status = "ok"]
  /\ iolog' = <<>>
  /\ UNCHANGED <<archive, file, store_entries, lazy_entries, pc, fp_pos,
                 central_dir_header, comment, entries_count, entries, cd_data,
                 decoded, arg, res>>

Next ==
  \/ ReadCentralDirectory
  \/ ReadEntries
  \/ \E name \in Names : OpenEntry(name)
  \/ \E name \in Names : EntryDataSync(name)
  \/ Close

Spec == Init /\ [][Next]_vars

(***************************************************************************)
(* ZipEntry.parse_zip64_extra and ZipEntry.validate_name applied on their  *)
(* own: the argument is drawn in the initial state, the one action applies *)
(* the function, and no archive is open.                                   *)
(***************************************************************************)
NoArchive ==
  /\ archive = Plain(<<>>)
  /\ file = <<>>
  /\ store_entries = FALSE
  /\ lazy_entries = FALSE
  /\ pc = "none"
  /\ fp_open = FALSE
  /\ fp_pos = <<>>
  /\ central_dir_header = None
  /\ comment = None
  /\ entries_count = 0
  /\ entries = <<>>
  /\ cd_data = <<>>
  /\ decoded = 0
  /\ ret = NoRet
  /\ iolog = <<>>

archive_vars == <<archive, file, store_entries, lazy_entries, pc, fp_open, fp_pos,
                  central_dir_header, comment, entries_count, entries, cd_data,
                  decoded, ret, iolog>>

\* an entry as read_header leaves it, its four ZIP64 fields drawn from the
\* placeholder and an ordinary value; the block holds the bytes 1, 2, 3, ...
MaxBlockLen == 28
BaseEntry == read_header(CentralRecord(KFile, LE32(3)), 0)
Zip64Inputs ==
  {[e |-> [BaseEntry EXCEPT !.size = s, !.compressed_size = c, !.offset = o,
                            !.disk_start = d],
    data |-> [i \in 1..n |-> i]] :
     s \in {EF_ZIP64_OR_32, <<2>>}, c \in {EF_ZIP64_OR_32, <<7>>},
     o \in {EF_ZIP64_OR_32, <<3>>}, d \in {FromNat(EF_ZIP64_OR_16), <<>>},
     n \in 0..MaxBlockLen}

InitZip64 == NoArchive /\ arg \in Zip64Inputs /\ res = None

ParseZip64Extra ==
  /\ res = None
  /\ res' = Some(parse_zip64_extra(arg.e, arg.data))
  /\ UNCHANGED <<archive_vars, arg>>

SpecZip64 == InitZip64 /\ [][ParseZip64Extra]_vars

\* names over: newline . / : a \ and U+FFFD
MaxNameLen == 4
NameAlphabet == {10, 46, 47, 58, 97, 92, REPLACEMENT}
NameInputs == UNION {[1..n -> NameAlphabet] : n \in 0..MaxNameLen}

InitName == NoArchive /\ arg \in NameInputs /\ res = None

ValidateName ==
  /\ res = None
  /\ res' = Some(validate_name_raises(arg))
  /\ UNCHANGED <<archive_vars, arg>>

SpecName == InitName /\ [][ValidateName]_vars

(***************************************************************************)
(* Properties                                                              *)
(***************************************************************************)
Resolved == ret.op \in {"open_entry", "entry_data_sync"} /\ ret.name \in DOMAIN entries

\* the metadata an entry exposes once its trailer is parsed
Meta(e) == <<e.name, e.is_directory, e.comment, e.size, e.compressed_size,
             e.offset, e.disk_start>>

\* the table eager loading builds from the directory of this file
EagerLoad ==
  LET hdr == central_dir_header[1]
  IN read_entries_eager(ReadAt(file, hdr.offset, hdr.size), 0, <<>>,
                        hdr.volume_entries, 0, TRUE)

\* C1: for an archive that opens in both modes, a lazy entry that resolve or
\* read_payload has just accessed is stored under the key eager loading gives
\* it and has the metadata (name, directory flag, comment, sizes, offset,
\* disk start) of the eager entry after the same call.
C1_LazyEqualsEager ==
  (pc = "ready" /\ lazy_entries /\ Resolved /\ EagerLoad.status = "ok") =>
     /\ ret.name \in DOMAIN EagerLoad.entries
     /\ Meta(entries[ret.name]) = Meta(open_entry(EagerLoad.entries[ret.name]).entry)

\* C2: resolve and read_payload of an entry whose name ends in "/" fail with
\* the directory error and perform no seek and no read, in either mode.
C2_DirectoryRefused ==
  (Resolved /\ Len(entries[ret.name].name) > 0
            /\ entries[ret.name].name[Len(entries[ret.name].name)] = 47) =>
     (ret.status = "IsDirectory" /\ iolog = <<>>)

\* the trailing window of the file, and where the end signature occurs in it
WindowStart == IF Len(file) > 65557 THEN Len(file) - 65557 ELSE 0
EocdOccurrences ==
  {p \in WindowStart..(Len(file) - 4) :
     file[p + 1] = 80 /\ file[p + 2] = 75 /\ file[p + 3] = 5 /\ file[p + 4] = 6}
LastOccurrence == CHOOSE p \in EocdOccurrences : \A q \in EocdOccurrences : q <= p
WindowIo == <<<<"seek", FromNat(WindowStart)>>,
              <<"read", FromNat(Len(file) - WindowStart)>>>>
AfterScan ==
  \/ pc = "cd_read"
  \/ pc = "failed" /\ ret.status \in {"EocdNotFound", "InvalidCentralDirectoryHeader",
                                      "Zip64NotImplemented"}

\* C3: open reads the last min(22 + 65535, file size) bytes; it fails with
\* EocdNotFound exactly when the signature does not occur there, and otherwise
\* decodes the end record at the last occurrence and at no earlier one: the
\* header it keeps holds the fields at that offset, and it fails when the 22
\* bytes from that offset are not all in the file.
C3_EocdAtLastSignature ==
  (pc \in {"cd_read", "ready", "failed"}) =>
     /\ AfterScan => iolog = WindowIo
     /\ (EocdOccurrences = {}) <=> (pc = "failed" /\ ret.status = "EocdNotFound")
     /\ EocdOccurrences # {} =>
          LET p == LastOccurrence
          IN IF p + 22 > Len(file)
             THEN /\ central_dir_header = None
                  /\ pc = "failed" /\ ret.status = "InvalidCentralDirectoryHeader"
             ELSE /\ central_dir_header # None
                  /\ central_dir_header[1].volume_entries = file[p + 9] + 256 * file[p + 10]
                  /\ central_dir_header[1].total_entries = file[p + 11] + 256 * file[p + 12]
                  /\ central_dir_header[1].size = Norm(SubSeq(file, p + 13, p + 16))
                  /\ central_dir_header[1].offset = Norm(SubSeq(file, p + 17, p + 20))
                  /\ central_dir_header[1].comment_length = file[p + 21] + 256 * file[p + 22]

\* an end record is decoded although an earlier signature lies in the window
C3_Witness ==
  /\ central_dir_header # None
  /\ Cardinality(EocdOccurrences) >= 2
  /\ central_dir_header[1].volume_entries = 0

\* C4: when the decoded end record holds 0xFFFF as volume or total entry
\* count, or 0xFFFFFFFF as directory size or offset, open has failed with the
\* ZIP64 error, having read nothing but the trailing window: no directory
\* entry is decoded or stored and no index is handed out.
C4_Zip64Refused ==
  (/\ central_dir_header # None
   /\ \/ central_dir_header[1].volume_entries = 65535
      \/ central_dir_header[1].total_entries = 65535
      \/ central_dir_header[1].size = <<255, 255, 255, 255>>
      \/ central_dir_header[1].offset = <<255, 255, 255, 255>>) =>
     /\ pc = "failed"
     /\ ret.op = "open" /\ ret.status = "Zip64NotImplemented"
     /\ iolog = WindowIo
     /\ decoded = 0 /\ entries = <<>> /\ cd_data = <<>>

C4_Witness ==
  /\ pc = "failed" /\ ret.status = "Zip64NotImplemented"
  /\ central_dir_header[1].total_entries = 65535
  /\ central_dir_header[1].volume_entries = 2

\* the 8 (or `width`) bytes of the block at cursor c, as a number
BlockValue(data, c, width) == Norm(SubSeq(data, c + 1, c + width))
IsPlaceholder32(n) == n = <<255, 255, 255, 255>>
IsPlaceholder16(n) == n = <<255, 255>>

\* C5 as stated: every field that holds its placeholder is overwritten, from a
\* cursor that advances by 8 for each placeholder field before it.
C5_Original ==
  res # None =>
    LET in == arg.e
        out == res[1]
        c2 == IF IsPlaceholder32(in.size) THEN 8 ELSE 0
        c3 == c2 + (IF IsPlaceholder32(in.compressed_size) THEN 8 ELSE 0)
        c4 == c3 + (IF IsPlaceholder32(in.offset) THEN 8 ELSE 0)
    IN /\ IsPlaceholder32(in.size) => Len(arg.data) >= 8 /\ out.size = BlockValue(arg.data, 0, 8)
       /\ IsPlaceholder32(in.compressed_size) =>
            Len(arg.data) >= c2 + 8 /\ out.compressed_size = BlockValue(arg.data, c2, 8)
       /\ IsPlaceholder32(in.offset) =>
            Len(arg.data) >= c3 + 8 /\ out.offset = BlockValue(arg.data, c3, 8)
       /\ IsPlaceholder16(in.disk_start) =>
            Len(arg.data) >= c4 + 4 /\ out.disk_start = BlockValue(arg.data, c4, 4)
       /\ ~IsPlaceholder32(in.size) => out.size = in.size
       /\ ~IsPlaceholder32(in.compressed_size) => out.compressed_size = in.compressed_size
       /\ ~IsPlaceholder32(in.offset) => out.offset = in.offset
       /\ ~IsPlaceholder16(in.disk_start) => out.disk_start = in.disk_start

\* C5: a field is overwritten exactly when it holds its placeholder and the
\* block still has 8 (disk start: 4) bytes at the cursor; the cursor starts at
\* 0 and advances by 8 past each field overwritten, in the order size,
\* compressed size, offset, disk start; every other field, and every field of
\* the entry outside these four, keeps its value.
C5_Zip64Overrides ==
  res # None =>
    LET in == arg.e
        out == res[1]
        w1 == IsPlaceholder32(in.size) /\ Len(arg.data) >= 8
        c2 == IF w1 THEN 8 ELSE 0
        w2 == IsPlaceholder32(in.compressed_size) /\ Len(arg.data) >= c2 + 8
        c3 == IF w2 THEN c2 + 8 ELSE c2
        w3 == IsPlaceholder32(in.offset) /\ Len(arg.data) >= c3 + 8
        c4 == IF w3 THEN c3 + 8 ELSE c3
        w4 == IsPlaceholder16(in.disk_start) /\ Len(arg.data) >= c4 + 4
    IN /\ out.size = IF w1 THEN BlockValue(arg.data, 0, 8) ELSE in.size
       /\ out.compressed_size = IF w2 THEN BlockValue(arg.data, c2, 8)
                                ELSE in.compressed_size
       /\ out.offset = IF w3 THEN BlockValue(arg.data, c3, 8) ELSE in.offset
       /\ out.disk_start = IF w4 THEN BlockValue(arg.data, c4, 4) ELSE in.disk_start
       /\ [out EXCEPT !.size = 0, !.compressed_size = 0, !.offset = 0, !.disk_start = 0]
          = [in EXCEPT !.size = 0, !.compressed_size = 0, !.offset = 0, !.disk_start = 0]

\* the size is no placeholder and is kept; offset and disk start are read from
\* the start of the block
C5_Witness ==
  /\ res # None
  /\ arg.e.size = <<2>> /\ res[1].size = <<2>>
  /\ arg.e.compressed_size = <<7>>
  /\ res[1].offset = <<1, 2, 3, 4, 5, 6, 7, 8>>
  /\ res[1].disk_start = <<9, 10, 11, 12>>

\* the bytes read_payload reads for entry e: compressed_size bytes at
\* offset + 30 + fname_len + extra_len
PayloadSpan(e) ==
  ReadAt(file, FromNat(ToNat(e.offset) + 30 + e.fname_len + e.extra_len),
         e.compressed_size)
Unpacked(e) == IF e.method = 0 THEN PayloadSpan(e) ELSE Inflate(PayloadSpan(e)).out
Bit3(flags) == (flags \div 8) % 2 = 1
PastResolve == {"ok", "UnsupportedMethod", "zlib.error", "SizeMismatch", "CrcMismatch"}

\* C6: read_payload returns bytes only for method stored or deflate, with the
\* length equal to the declared size and, unless flag bit 3 is set, the CRC-32
\* equal to the declared CRC; an unsupported method, a wrong length and a wrong
\* CRC fail with UnsupportedMethod, SizeMismatch and CrcMismatch; and a stored
\* member whose bytes do not have the declared CRC, bit 3 clear, is not returned.
C6_PayloadVerified ==
  (ret.op = "entry_data_sync" /\ ret.name \in DOMAIN entries) =>
    LET e == entries[ret.name]
    IN /\ ret.status = "ok" =>
            /\ e.method \in {0, 8}
            /\ ret.data = Unpacked(e)
            /\ FromNat(Len(ret.data)) = e.size
            /\ Bit3(e.flags) \/ crc32(ret.data) = e.crc
       /\ ret.status \in PastResolve =>
            /\ (e.method \notin {0, 8}) <=> (ret.status = "UnsupportedMethod")
            /\ ret.status = "SizeMismatch" => FromNat(Len(Unpacked(e))) # e.size
            /\ (e.method = 0 /\ FromNat(Len(Unpacked(e))) # e.size) =>
                 ret.status = "SizeMismatch"
            /\ ret.status = "CrcMismatch" =>
                 /\ FromNat(Len(Unpacked(e))) = e.size
                 /\ ~Bit3(e.flags) /\ crc32(Unpacked(e)) # e.crc
            /\ (e.method = 0 /\ FromNat(Len(Unpacked(e))) = e.size
                /\ ~Bit3(e.flags) /\ crc32(Unpacked(e)) # e.crc) =>
                 ret.status = "CrcMismatch"
       /\ \A i \in 1..Len(archive.members) :
            LET m == archive.members[i]
            IN (/\ decode(m.name) = ret.name
                /\ m.lmethod = 0 /\ m.cmethod = 0 /\ ~Bit3(m.lflags)
                /\ Pad4(crc32(m.data)) # m.lcrc
                /\ Pad4(crc32(m.data)) # m.ccrc) => ret.status # "ok"

\* a stored member with one byte changed is refused for its CRC
C6_Witness ==
  /\ ret.op = "entry_data_sync" /\ ret.status = "CrcMismatch"
  /\ ret.name = <<98>>
  /\ Unpacked(entries[ret.name]) = <<104, 106>>

\* what read_payload of entry e does before it verifies, on a file with the
\* bytes data: the outcome of resolve and the bytes read at the data offset
ResolveAndReadAt(e, data, open, pos) ==
  LET r == open_entry_at(e, data, open, pos)
  IN [resolved |-> r,
      data |-> IF r.status = "ok" /\ ~ReadOverflows(r.entry.compressed_size)
               THEN ReadAt(data, FromNat(r.data_offset), r.entry.compressed_size)
               ELSE <<>>]

ResolveAndRead(e) == ResolveAndReadAt(e, file, fp_open, fp_pos)

\* the result read_payload draws from them (a read too large for memory aside)
Verified(rr) ==
  IF rr.resolved.status # "ok"
  THEN [status |-> rr.resolved.status, data |-> <<>>]
  ELSE IF ReadOverflows(rr.resolved.entry.compressed_size)
  THEN [status |-> "OverflowError", data |-> <<>>]
  ELSE entry_data_check(rr.resolved.entry, rr.data)

PayloadResult(e) == Verified(ResolveAndRead(e))

EntryFailures == {"LocalHeaderMismatch", "UnsupportedMethod", "SizeMismatch",
                  "CrcMismatch"}

\* C7: a read_payload that fails with a local-header mismatch, an unsupported
\* method, a size mismatch or a CRC mismatch leaves the keys of the table,
\* every other entry, the entry count, the comment, the end record and the
\* open file as they were, and read_payload of every other entry gives what
\* it gave before.
C7_FailureIsLocal ==
  [][(ret'.op = "entry_data_sync" /\ ret'.name \in DOMAIN entries
      /\ ret'.status \in EntryFailures) =>
       /\ DOMAIN entries' = DOMAIN entries
       /\ \A m \in DOMAIN entries \ {ret'.name} :
            /\ entries'[m] = entries[m]
            /\ \E after \in {<<entries[m], file, fp_open, fp_pos>>'} :
                 Verified(ResolveAndReadAt(after[1], after[2], after[3], after[4]))
                   = PayloadResult(entries[m])
       /\ entries_count' = entries_count
       /\ comment' = comment
       /\ central_dir_header' = central_dir_header
       /\ fp_open' = fp_open
       /\ file' = file]_vars

\* a read has failed for its CRC beside an entry that reads well
C7_Witness ==
  /\ ret.op = "entry_data_sync" /\ ret.status = "CrcMismatch"
  /\ \E m \in DOMAIN entries \ {ret.name} :
       PayloadResult(entries[m]).status = "ok"

\* C8: once open and load_entries have succeeded, the entry count exposed is
\* the volume entry count of the end record and that many directory entries
\* were decoded, in both modes; and a well-formed archive does open, with the
\* count of its members.
C8_EntryCount ==
  /\ pc = "ready" =>
       /\ entries_count = central_dir_header[1].volume_entries
       /\ decoded = entries_count
  /\ archive.valid =>
       /\ pc # "failed"
       /\ pc = "ready" => entries_count = Len(archive.members)

C8_Witness ==
  /\ pc = "ready" /\ archive.valid /\ lazy_entries
  /\ entries_count = 2 /\ decoded = 2

HasBackslash(name) == \E i \in 1..Len(name) : name[i] = 92
LeadingSlash(name) == Len(name) >= 1 /\ name[1] = 47
IsLetter(c) == c \in (65..90) \cup (97..122)
\* the maximal runs of characters other than "/", as index pairs
Segments(name) ==
  {<<i, j>> \in (1..Len(name)) \X (0..Len(name)) :
     /\ i <= j + 1
     /\ i = 1 \/ name[i - 1] = 47
     /\ j = Len(name) \/ name[j + 1] = 47
     /\ \A k \in i..j : name[k] # 47}
DotDot(name, sg) == sg[2] = sg[1] + 1 /\ name[sg[1]] = 46 /\ name[sg[2]] = 46

\* C9 as stated: the call fails exactly for a name with a backslash, a leading
\* drive letter and colon, a leading "/", or a ".." segment.
C9_Original ==
  res # None =>
    (res[1] <=>
       \/ HasBackslash(arg)
       \/ Len(arg) >= 2 /\ IsLetter(arg[1]) /\ arg[2] = 58
       \/ LeadingSlash(arg)
       \/ \E sg \in Segments(arg) : DotDot(arg, sg))

\* C9: the call fails exactly for a name with a backslash, a leading run of
\* one or more word characters followed by ":", a leading "/", or a segment
\* that is ".." or, at the very end of the name, ".." and a newline.
C9_ValidateName ==
  res # None =>
    (res[1] <=>
       \/ HasBackslash(arg)
       \/ \E c \in 2..Len(arg) :
            /\ arg[c] = 58
            /\ \A j \in 1..(c - 1) : arg[j] # 58 /\ IsWord(arg[j])
       \/ LeadingSlash(arg)
       \/ \E sg \in Segments(arg) :
            \/ DotDot(arg, sg)
            \/ /\ sg[2] = Len(arg) /\ sg[2] = sg[1] + 2
               /\ arg[sg[1]] = 46 /\ arg[sg[1] + 1] = 46 /\ arg[sg[2]] = 10)

\* "aa:" is refused although no single drive letter starts it
C9_Witness == arg = <<97, 97, 58>> /\ res = Some(TRUE)

\* C10: resolve of a lazy entry parses its trailer, so the entry is Parsed
\* afterwards, and on a well-formed archive resolve of a file entry returns a
\* data offset.
C10_LazyResolveParses ==
  (lazy_entries /\ ret.op = "open_entry" /\ ret.name \in DOMAIN entries) =>
     /\ entries[ret.name].parsed_lazy
     /\ (archive.valid /\ ~endswith_sep(ret.name)) => ret.status = "ok"

\* ---------------------------------------------------------------------
\* ZipEntry.read_extra on its own: extra blocks of up to MaxRecords
\* sub-records, each well formed, overrunning the block or cut in its header
MaxRecords == 2
SubRecords ==
  {Zip64Rec(LE64(2)),
   <<1, 0>> \o LE16(16) \o LE64(5),
   UnicodePath(<<118>>, 6),
   UnicodePath(<<120>>, 9),
   <<117, 112>> \o LE16(9) \o <<1, 0, 0>>,
   <<10, 0>> \o LE16(2) \o <<7, 7>>,
   <<1, 0, 8>>}
RECURSIVE Concat(_)
Concat(ss) == IF ss = <<>> THEN <<>> ELSE Head(ss) \o Concat(Tail(ss))
ExtraBlocks == {Concat(ss) : ss \in UNION {[1..n -> SubRecords] : n \in 0..MaxRecords}}
ExtraInputs ==
  {[e |-> [BaseEntry EXCEPT !.size = sz, !.name = <<119>>], data |-> d] :
     sz \in {EF_ZIP64_OR_32, <<2>>}, d \in ExtraBlocks}

InitExtra == NoArchive /\ arg \in ExtraInputs /\ res = None

ReadExtra ==
  /\ res = None
  /\ res' = Some(read_extra(arg.e, arg.data))
  /\ UNCHANGED <<archive_vars, arg>>

SpecExtra == InitExtra /\ [][ReadExtra]_vars

\* the length of the leading part of an extra block made of sub-records that
\* lie wholly inside it, counted from cursor c
RECURSIVE WholeRecords(_, _)
WholeRecords(data, c) ==
  IF c + 4 > Len(data) THEN c
  ELSE IF c + 4 + unpack_H(data, c + 2) > Len(data) THEN c
  ELSE WholeRecords(data, c + 4 + unpack_H(data, c + 2))

\* C11: a sub-record whose declared length runs past the end of the extra
\* block ends the decoding and is not dispatched: the entry is as the
\* sub-records wholly inside the block leave it.
C11_OverrunNotDispatched ==
  res # None =>
    res[1] = read_extra(arg.e, Slice(arg.data, 0, WholeRecords(arg.data, 0)))

HoldsPlaceholder(e) ==
  \/ e.size = EF_ZIP64_OR_32
  \/ e.compressed_size = EF_ZIP64_OR_32
  \/ e.offset = EF_ZIP64_OR_32
  \/ e.disk_start = FromNat(EF_ZIP64_OR_16)

\* C12: resolve and read_payload of a fully parsed entry that still holds a
\* ZIP64 placeholder in size, compressed_size, offset or disk_start fail, and
\* neither seek to offset 0xFFFFFFFF nor read 0xFFFFFFFF bytes.
C12_PlaceholderRefused ==
  (/\ ~lazy_entries
   /\ ret.op \in {"open_entry", "entry_data_sync"}
   /\ ret.name \in DOMAIN entries
   /\ HoldsPlaceholder(entries[ret.name])) =>
     /\ ret.status # "ok"
     /\ \A i \in 1..Len(iolog) :
          /\ iolog[i] # <<"seek", EF_ZIP64_OR_32>>
          /\ iolog[i] # <<"read", EF_ZIP64_OR_32>>

FullyParsed(e) == ~e.has_parsed_lazy \/ e.parsed_lazy

\* C13: a fully parsed entry has its directory flag set exactly when its
\* current name ends with "/" or "\", also after a Unicode Path sub-record
\* has replaced the name.
C13_DirectoryFlagFollowsName ==
  pc = "ready" =>
    \A n \in DOMAIN entries :
      FullyParsed(entries[n]) =>
        (entries[n].is_directory <=> endswith_sep(entries[n].name))

\* ---------------------------------------------------------------------
\* ZipEntry.read_data_header on its own: local headers with every field
\* drawn from zero, the placeholder and ordinary values, whole (LOCHDR bytes)
\* or cut short (the file ends inside the header)
CutLen == LOCHDR - 6
LocalValues ==
  [version : {10, 20}, flags : {0, 8}, method : {STORED, DEFLATED},
   time : {0, DosTime}, date : {DosDate},
   crc : {LE32(0), <<1, 2, 3, 4>>},
   csize : {LE32(0), FF4, LE32(5)},
   size : {LE32(0), FF4, LE32(6)},
   fname_len : {1, 2}, extra_len : {0, 5}]
LocalHeader(l) ==
  SigBytes(LOCSIG) \o LE16(l.version) \o LE16(l.flags) \o LE16(l.method)
  \o LE16(l.time) \o LE16(l.date) \o l.crc \o l.csize \o l.size
  \o LE16(l.fname_len) \o LE16(l.extra_len)
LocalInputs ==
  {[e |-> [BaseEntry EXCEPT !.size = sz], l |-> l,
    data |-> Slice(LocalHeader(l), 0, n)] :
     sz \in {<<2>>, <<0, 0, 0, 0, 1>>}, l \in LocalValues, n \in {LOCHDR, CutLen}}

InitLocal == NoArchive /\ arg \in LocalInputs /\ res = None

ReadDataHeader ==
  /\ res = None
  /\ res' = Some(read_data_header(arg.e, arg.data))
  /\ UNCHANGED <<archive_vars, arg>>

SpecLocal == InitLocal /\ [][ReadDataHeader]_vars

\* C14: read_data_header of a whole local header takes the CRC from it only
\* when that CRC is not zero, the compressed and the uncompressed size each
\* only when the local value is neither zero nor 0xFFFFFFFF, keeps the
\* entry's own value otherwise, and always takes version, flags, method and
\* timestamp from the local header.
C14_LocalOverrides ==
  (res # None /\ Len(arg.data) = LOCHDR) =>
    LET r == res[1].entry
        e == arg.e
        l == arg.l
    IN /\ res[1].ok
       /\ r.crc = IF l.crc = LE32(0) THEN e.crc ELSE Norm(l.crc)
       /\ r.compressed_size = IF l.csize \in {LE32(0), FF4} THEN e.compressed_size
                              ELSE Norm(l.csize)
       /\ r.size = IF l.size \in {LE32(0), FF4} THEN e.size ELSE Norm(l.size)
       /\ r.version = l.version
       /\ r.flags = l.flags
       /\ r.method = l.method
       /\ r.time = parse_zip_time(l.time, l.date)

\* a local header with CRC zero, compressed size 0xFFFFFFFF and size 6 has
\* been read into an entry whose size a ZIP64 sub-record had set
C14_Witness ==
  /\ res # None /\ Len(arg.data) = LOCHDR
  /\ arg.l.crc = LE32(0) /\ arg.l.csize = FF4 /\ arg.l.size = LE32(6)
  /\ arg.e.size = <<0, 0, 0, 0, 1>>
  /\ res[1].entry.crc = arg.e.crc /\ res[1].entry.crc # <<>>
  /\ res[1].entry.compressed_size = arg.e.compressed_size
  /\ res[1].entry.size = <<6>>

\* ---------------------------------------------------------------------
\* the eager loop of _read_entries on its own: the central directory of up
\* to MaxEntries members, cut at every length, with every declared count up
\* to one more than the members
MaxEntries == 2
EntryKinds == {KFile, KDir, KDeflate, KZip64}
EagerInputs ==
  {[ms |-> ms, cd |-> Slice(Centrals(ms, 0, 0, 0), 0, cut), n |-> n] :
     ms \in UNION {[1..k -> EntryKinds] : k \in 0..MaxEntries},
     cut \in 0..(MaxEntries * (CENHDR + 21)),
     n \in 0..(MaxEntries + 1)}

InitEager == NoArchive /\ arg \in EagerInputs /\ res = None

ReadEntriesEager ==
  /\ res = None
  /\ res' = Some(read_entries_eager(arg.cd, 0, <<>>, arg.n, 0, TRUE))
  /\ UNCHANGED <<archive_vars, arg>>

SpecEager == InitEager /\ [][ReadEntriesEager]_vars

\* the end of the k-th directory record of the members ms
RECURSIVE RecordEnd(_, _)
RecordEnd(ms, k) ==
  IF k = 0 THEN 0
  ELSE RecordEnd(ms, k - 1) + CENHDR + Len(ms[k].name) + Len(ms[k].cextra)
       + Len(ms[k].com)
\* the records among the first n that lie wholly inside a block of len bytes
Fitting(ms, n, len) ==
  Cardinality({k \in 1..Min(n, Len(ms)) : RecordEnd(ms, k) <= len})

\* C15: the eager loop decodes the declared entries in order, each
\* 46 + name_len + extra_len + comment_len bytes after the one before; it
\* decodes exactly the entries that lie wholly inside the block read, each as
\* it is decoded from the whole directory, and fails, storing nothing
\* more, at the first declared entry whose header or trailer does not fit.
C15_EagerCursor ==
  res # None =>
    LET r == res[1]
        ms == arg.ms
        k == Fitting(ms, arg.n, Len(arg.cd))
        whole == read_entries_eager(Centrals(ms, 0, 0, 0), 0, <<>>, k, 0, TRUE)
    IN /\ r.decoded = k
       /\ DOMAIN r.entries = {decode(ms[i].name) : i \in 1..k}
       /\ \A i \in 1..k :
            (\A j \in (i + 1)..k : ms[j].name # ms[i].name) =>
              r.entries[decode(ms[i].name)]
                = read(read_header(arg.cd, RecordEnd(ms, i - 1)), arg.cd,
                       RecordEnd(ms, i - 1) + CENHDR)
       /\ r.entries = whole.entries
       /\ (r.status = "ok") <=> (k = arg.n)
       /\ r.status = "ok" => r.pos = RecordEnd(ms, arg.n)
       /\ r.status \in {"ok", "IncompleteEntry", "CorruptedEntry"}
       /\ (r.status = "IncompleteEntry") <=>
            (k < arg.n /\ RecordEnd(ms, k) + CENHDR > Len(arg.cd))
       /\ (r.status = "CorruptedEntry") <=>
            (k < arg.n /\ RecordEnd(ms, k) + CENHDR <= Len(arg.cd))

\* two entries are declared and the block ends inside the trailer of the
\* second: the first is stored and the load fails
C15_Witness ==
  /\ res # None
  /\ arg.n = 2 /\ Len(arg.ms) = 2
  /\ Len(arg.cd) = RecordEnd(arg.ms, 2) - 1
  /\ res[1].status = "CorruptedEntry"
  /\ res[1].decoded = 1
  /\ DOMAIN res[1].entries = {decode(arg.ms[1].name)}

Calls == {"open_entry", "entry_data_sync"}
\* what a call tells of resolve: its own outcome, or that it went through
ResolveOutcome(r) ==
  IF r.op = "entry_data_sync"
     /\ r.status \in PastResolve \cup {"MemoryError", "OverflowError"}
  THEN "ok" ELSE r.status

\* C16: a resolve or read_payload that follows a resolve or read_payload of
\* the same eagerly loaded entry, the file still open, leaves the entry's
\* fields as the earlier call left them, resolves the same way, and returns
\* what the earlier call of its kind returned (a read too large for memory
\* aside).
C16_Repeatable ==
  [][(/\ ~lazy_entries /\ fp_open
      /\ ret.op \in Calls /\ ret'.op \in Calls
      /\ ret'.name = ret.name /\ ret.name \in DOMAIN entries
      /\ ret.status # "MemoryError" /\ ret'.status # "MemoryError") =>
       /\ entries' = entries
       /\ ResolveOutcome(ret') = ResolveOutcome(ret)
       /\ ret'.op = ret.op => ret' = ret]_vars

\* resolve has rewritten an entry from a local header that differs from its
\* directory record, and a second resolve of it goes through
C16_Witness ==
  /\ ~lazy_entries /\ fp_open
  /\ ret.op = "open_entry" /\ ret.status = "ok"
  /\ ret.name \in DOMAIN entries
  /\ entries[ret.name].extra_len = 5
  /\ entries[ret.name].time = <<2024, 1, 15, 0, 0, 0>>
  /\ open_entry(entries[ret.name]).status = "ok"
  /\ open_entry(entries[ret.name]).entry = entries[ret.name]

====
